---- MODULE Spec2Model ----
(***************************************************************************)
(* Hephaestus management scripts: workflow completion evaluation           *)
(* (check_workflow_status.py), stale worktree cleanup                      *)
(* (cleanup_stale_worktrees.py) and failed-task reset                      *)
(* (restart_stalled_workflow.py), over the rows of the persisted store.    *)
(***************************************************************************)
EXTENDS Integers, Sequences, FiniteSets, TLC

\* ------------------------------------------------------------------ bounds
NumWorkflows == 2
MaxResults == 1
NumPhases == 2
NumTasks == 3
MaxApiPhases == 2
MaxCount == 1
NumWorktrees == 2
MaxRuns == 2

\* ------------------------------------------------------------- identifiers
\* Python's None, for ids, timestamps and optional text alike.
None == 0
\* The empty string given as --workflow-id: falsy in `if workflow_id:`.
EmptyId == -1

\* What a query answers for an Agent id that has no row.
NoRow == "no row"

WfIds == 1..NumWorkflows
\* An id that is the key of no Workflow row.
UnknownWfId == NumWorkflows + 1
PhaseIds == 1..NumPhases
TaskIds == 1..NumTasks
WtIds == 1..NumWorktrees

WorkflowStatuses == {"active", "paused", "completed"}
TaskStatuses == {"pending", "queued", "assigned", "in_progress", "done", "failed", "blocked"}
ResultStatuses == {"pending", "validated", "rejected"}
MergeStatuses == {"active", "merged", "cleaned", "abandoned"}

VARIABLES
    \* persisted store
    workflows,          \* Workflow rows: id -> status
    workflow_results,   \* the WorkflowResult row, or None: [workflow_id, status]
    phases,             \* Phase rows: id -> workflow_id (Phase.order is the id);
                        \* None: the phase of a workflow that is not among WfIds
    tasks,              \* Task rows: id -> [phase_id, status, failure_reason, ...]
    worktrees,          \* AgentWorktree rows: id -> merge_status
    agents,             \* Agent rows: id -> status, or NoRow when the row is missing
    current_task,       \* Agent.current_task_id: agent id -> task id, or None
    \* external ground truth of the stale-worktree detector
    disk,               \* worktree ids whose worktree_path exists on disk
    git_worktrees,      \* worktree ids whose path git lists as a worktree
    branches,           \* names of the branches of the main repository
    \* check_workflow_status.py main()
    method,             \* --method of this invocation
    request,            \* --workflow-id of the invocation that filled results
    results,            \* main()'s results dict
    response,           \* what GET /api/workflow gave the invocation
    \* cleanup_stale_worktrees.py
    cl,                 \* the run in progress: pc, dry_run, stale_worktrees, ...
    \* restart_stalled_workflow.py
    rs,                 \* the run in progress: pc, failed_tasks, task_ids, ...
    rs2,                \* a second run of restart_failed_tasks, overlapping the first
    \* restart_stalled_agents.py
    sa                  \* the run in progress: pc, active_agents, task_ids_to_restart, ...

storeVars == <<workflows, workflow_results, phases, tasks, worktrees, agents, current_task>>
envVars == <<disk, git_worktrees, branches>>
evalVars == <<method, request, results, response>>
vars == <<workflows, workflow_results, phases, tasks, worktrees, agents, current_task, disk,
          git_worktrees, branches, method, request, results, response, cl, rs, rs2, sa>>

\* ------------------------------------------------------------------ helpers
\* dict.get(key, default)
Get(d, key, default) == IF key \in DOMAIN d THEN d[key] ELSE default

RECURSIVE SumSeq(_)
SumSeq(s) == IF s = <<>> THEN 0 ELSE Head(s) + SumSeq(Tail(s))

Min(S) == CHOOSE x \in S : \A y \in S : x <= y

\* The elements of a set of integers in ascending order.
RECURSIVE SortedSeq(_)
SortedSeq(S) == IF S = {} THEN <<>> ELSE <<Min(S)>> \o SortedSeq(S \ {Min(S)})

\* Sequences over S of length 0..n.
SeqsUpTo(S, n) == UNION {[1..k -> S] : k \in 0..n}

\* ------------------------------------------------- store rows and their sets
\* A Task row. Only phase_id and status are read by the completion evaluator;
\* the other four columns are the ones restart_failed_tasks clears.
TaskRow(phase_id, status, failure_reason, assigned_agent_id, started_at, completed_at) ==
    [phase_id |-> phase_id, status |-> status, failure_reason |-> failure_reason,
     assigned_agent_id |-> assigned_agent_id, started_at |-> started_at,
     completed_at |-> completed_at]

\* The columns a task of the given status carries in a store the platform wrote:
\* an agent once it is assigned, a start time once it runs, an end time once it
\* is done.
PlainTask(phase_id, status) ==
    TaskRow(phase_id, status, None,
            IF status \in {"assigned", "in_progress", "done"} THEN 1 ELSE None,
            IF status \in {"in_progress", "done"} THEN 1 ELSE None,
            IF status = "done" THEN 1 ELSE None)

StatusRank(status) ==
    CASE status = "pending" -> 1 [] status = "queued" -> 2 [] status = "assigned" -> 3
      [] status = "in_progress" -> 4 [] status = "done" -> 5 [] status = "failed" -> 6
      [] status = "blocked" -> 7

WorkflowResultRows == [workflow_id : WfIds, status : ResultStatuses]

\* ------------------------------------------- check_workflow_status.py, store
\* session.query(Task).filter_by(phase_id=...).filter(status in ...).count()
CountTasks(phase_id, statuses) ==
    Cardinality({t \in TaskIds : tasks[t].phase_id = phase_id /\ tasks[t].status \in statuses})

\* PhaseComplete with the first comparison off by one (>= for >).
PhaseCompleteVacuous(completed_tasks, active_tasks, pending_tasks) ==
    completed_tasks >= 0 /\ active_tasks = 0 /\ pending_tasks = 0

PhaseComplete(completed_tasks, active_tasks, pending_tasks) ==
    completed_tasks > 0 /\ active_tasks = 0 /\ pending_tasks = 0

\* One entry of phase_statuses.
PhaseStatus(phase_id) ==
    LET total_tasks == CountTasks(phase_id, TaskStatuses)
        completed_tasks == CountTasks(phase_id, {"done"})
        active_tasks == CountTasks(phase_id, {"assigned", "in_progress"})
        pending_tasks == CountTasks(phase_id, {"pending"})
    IN [phase_id |-> phase_id, phase_order |-> phase_id,
        total_tasks |-> total_tasks, completed_tasks |-> completed_tasks,
        active_tasks |-> active_tasks, pending_tasks |-> pending_tasks,
        complete |-> PhaseComplete(completed_tasks, active_tasks, pending_tasks)]

\* CompletionPercentage without the total_tasks > 0 guard.
CompletionPercentageUnguarded(completed_tasks, total_tasks) ==
    [num |-> completed_tasks * 100, den |-> total_tasks]

\* (completed_tasks / total_tasks * 100) if total_tasks > 0 else 0, kept as the
\* exact fraction num/den; den = 0 stands for a ZeroDivisionError.
CompletionPercentage(completed_tasks, total_tasks) ==
    IF total_tasks > 0 THEN [num |-> completed_tasks * 100, den |-> total_tasks]
    ELSE [num |-> 0, den |-> 1]

Progress(total_tasks, completed_tasks, active_tasks, pending_tasks) ==
    [total_tasks |-> total_tasks, completed_tasks |-> completed_tasks,
     active_tasks |-> active_tasks, pending_tasks |-> pending_tasks,
     completion_percentage |-> CompletionPercentage(completed_tasks, total_tasks)]

\* The values the first query can bind `workflow` to: the row with the given id,
\* else (no id, or a falsy one) the .first() of the active or paused rows, which
\* has no ORDER BY; None when no row matches.
SelectWorkflow(workflow_id) ==
    IF workflow_id # None /\ workflow_id # EmptyId
    THEN IF workflow_id \in WfIds THEN {workflow_id} ELSE {None}
    ELSE IF \E w \in WfIds : workflows[w] \in {"active", "paused"}
         THEN {w \in WfIds : workflows[w] \in {"active", "paused"}}
         ELSE {None}

\* ValidatedResult filtering on the wrong status.
ValidatedResultWrongStatus(workflow_id) ==
    \E r \in workflow_results : r.workflow_id = workflow_id /\ r.status = "pending"

\* session.query(WorkflowResult).filter_by(workflow_id=..., status="validated").first()
ValidatedResult(workflow_id) ==
    \E r \in workflow_results : r.workflow_id = workflow_id /\ r.status = "validated"

\* PhasesOf without the workflow_id filter: the phases of every workflow.
PhasesOfAnyWorkflow(workflow_id) == SortedSeq({p \in PhaseIds : phases[p] # None})

\* session.query(Phase).filter_by(workflow_id=...).order_by(Phase.order).all()
PhasesOf(workflow_id) == SortedSeq({p \in PhaseIds : phases[p] = workflow_id})

\* The phase rollup of check_workflow_completion_via_db, reached when
\* neither the status nor a validated result settled the verdict.
CheckPhases(workflow) ==
    LET phs == PhasesOf(workflow)
        phase_statuses == [i \in 1..Len(phs) |-> PhaseStatus(phs[i])]
        all_phases_complete == \A i \in 1..Len(phs) : phase_statuses[i].complete
    IN IF all_phases_complete /\ Len(phs) > 0
       THEN [complete |-> TRUE, reason |-> "All phases complete (all tasks done)",
             workflow_id |-> workflow, phases |-> phase_statuses]
       ELSE [complete |-> FALSE, reason |-> "Workflow still in progress",
             workflow_id |-> workflow, status |-> workflows[workflow],
             phases |-> phase_statuses,
             progress |-> Progress(
                 SumSeq([i \in 1..Len(phs) |-> phase_statuses[i].total_tasks]),
                 SumSeq([i \in 1..Len(phs) |-> phase_statuses[i].completed_tasks]),
                 SumSeq([i \in 1..Len(phs) |-> phase_statuses[i].active_tasks]),
                 SumSeq([i \in 1..Len(phs) |-> phase_statuses[i].pending_tasks]))]

\* The evaluator asking for a validated result before looking at the status.
CheckDbResultFirst(workflow) ==
    IF workflow = None
    THEN [complete |-> TRUE, reason |-> "No active workflow found", workflow_id |-> None]
    ELSE IF ValidatedResult(workflow)
    THEN [complete |-> TRUE, reason |-> "Workflow has validated result",
          workflow_id |-> workflow]
    ELSE IF workflows[workflow] = "completed"
    THEN [complete |-> TRUE, reason |-> "Workflow marked as completed",
          workflow_id |-> workflow, status |-> workflows[workflow]]
    ELSE CheckPhases(workflow)

\* check_workflow_completion_via_db once `workflow` is bound.
CheckDb(workflow) ==
    IF workflow = None
    THEN [complete |-> TRUE, reason |-> "No active workflow found", workflow_id |-> None]
    ELSE IF workflows[workflow] = "completed"
    THEN [complete |-> TRUE, reason |-> "Workflow marked as completed",
          workflow_id |-> workflow, status |-> workflows[workflow]]
    ELSE IF ValidatedResult(workflow)
    THEN [complete |-> TRUE, reason |-> "Workflow has validated result",
          workflow_id |-> workflow]
    ELSE CheckPhases(workflow)

\* -------------------------------------------- check_workflow_status.py, API
ApiStatuses == {"inactive", "active", "completed"}
ApiKeys == {"total_tasks", "completed_tasks", "active_tasks", "pending_tasks"}
\* One phase of the response body: any of the four counts may be missing.
ApiPhases == UNION {[K -> 0..MaxCount] : K \in SUBSET ApiKeys}
\* The bodies GET /api/workflow can answer with.
WorkflowInfos == [status : ApiStatuses, phases : SeqsUpTo(ApiPhases, MaxApiPhases)]

ApiPhaseComplete(phase) ==
    /\ Get(phase, "completed_tasks", 0) > 0
    /\ Get(phase, "active_tasks", 0) = 0
    /\ Get(phase, "pending_tasks", 0) = 0

\* check_workflow_completion_via_api on the body of a successful response.
CheckApiInfo(workflow_info) ==
    IF workflow_info.status = "inactive"
    THEN [complete |-> TRUE, reason |-> "No active workflow", workflow_info |-> workflow_info]
    ELSE IF workflow_info.status = "completed"
    THEN [complete |-> TRUE, reason |-> "Workflow marked as completed",
          workflow_info |-> workflow_info]
    ELSE LET phs == workflow_info.phases
             all_phases_complete == \A i \in 1..Len(phs) : ApiPhaseComplete(phs[i])
         IN IF all_phases_complete /\ Len(phs) > 0
            THEN [complete |-> TRUE, reason |-> "All phases complete (all tasks done)",
                  workflow_info |-> workflow_info]
            ELSE [complete |-> FALSE, reason |-> "Workflow still in progress",
                  workflow_info |-> workflow_info,
                  progress |-> Progress(
                      SumSeq([i \in 1..Len(phs) |-> Get(phs[i], "total_tasks", 0)]),
                      SumSeq([i \in 1..Len(phs) |-> Get(phs[i], "completed_tasks", 0)]),
                      SumSeq([i \in 1..Len(phs) |-> Get(phs[i], "active_tasks", 0)]),
                      SumSeq([i \in 1..Len(phs) |-> Get(phs[i], "pending_tasks", 0)]))]

\* The except branch: the request failed, timed out or answered an error status.
ApiFailure ==
    [complete |-> FALSE, error |-> "request failed", reason |-> "Failed to check workflow status"]

\* Neither httpx nor urllib could be imported (HAS_HTTPX is None).
ApiNoLibrary ==
    [complete |-> FALSE, error |-> "No HTTP library available (httpx or urllib)",
     reason |-> "Cannot check via API"]

\* What the request gave: a body, an exception (time-out, transport error,
\* error status, a body that is not the expected JSON), or no request at all
\* for want of an HTTP library.
NoResponse == [kind |-> "none"]
Answered(workflow_info) == [kind |-> "body", workflow_info |-> workflow_info]
CallFailed == [kind |-> "error"]
NoLibrary == [kind |-> "no library"]

\* The except branch taking a failed call for an idle service.
CheckApiFailureIsInactive(r) ==
    IF r.kind = "body" THEN CheckApiInfo(r.workflow_info)
    ELSE IF r.kind = "error" THEN [complete |-> TRUE, reason |-> "No active workflow"]
    ELSE ApiNoLibrary

\* check_workflow_completion_via_api on what the request gave.
CheckApi(r) ==
    IF r.kind = "body" THEN CheckApiInfo(r.workflow_info)
    ELSE IF r.kind = "error" THEN ApiFailure
    ELSE ApiNoLibrary

\* ----------------------------------------------------- initial store states
NoRun == [pc |-> "idle"]

EmptyStore ==
    /\ workflows = [w \in WfIds |-> "completed"]
    /\ workflow_results = {}
    /\ phases = [p \in PhaseIds |-> None]
    /\ tasks = [t \in TaskIds |-> PlainTask(1, "done")]
    /\ worktrees = [w \in WtIds |-> "cleaned"]
    /\ agents = [a \in WtIds |-> NoRow]
    /\ current_task = [a \in WtIds |-> None]

NoEnv ==
    /\ disk = {}
    /\ git_worktrees = {}
    /\ branches = {}

\* Task ids carry no meaning for the evaluator, which only counts rows: the
\* rows are listed by phase and status.
TaskTables ==
    {tt \in [TaskIds -> {PlainTask(p, s) : p \in PhaseIds, s \in TaskStatuses}] :
        \A t \in TaskIds \ {NumTasks} :
            \/ tt[t].phase_id < tt[t + 1].phase_id
            \/ /\ tt[t].phase_id = tt[t + 1].phase_id
               /\ StatusRank(tt[t].status) <= StatusRank(tt[t + 1].status)}

\* One invocation of check_workflow_status.py. With --method db the store is any
\* store; with --method api no row of the store is read.
InitEval ==
    /\ method \in {"db", "api"}
    /\ IF method = "db"
       THEN /\ workflows \in [WfIds -> WorkflowStatuses]
            /\ workflow_results \in {R \in SUBSET WorkflowResultRows : Cardinality(R) <= MaxResults}
            /\ phases \in [PhaseIds -> WfIds \cup {None}]
            /\ tasks \in TaskTables
            /\ worktrees = [w \in WtIds |-> "cleaned"]
            /\ agents = [a \in WtIds |-> NoRow]
            /\ current_task = [a \in WtIds |-> None]
       ELSE EmptyStore
    /\ NoEnv
    /\ request = None
    /\ results = <<>>
    /\ response = NoResponse
    /\ cl = NoRun
    /\ rs = NoRun
    /\ rs2 = NoRun
    /\ sa = NoRun

\* main() with --method db and the given --workflow-id; it runs once per invocation.
MainDb(workflow_id) ==
    /\ method = "db"
    /\ results = <<>>
    /\ \E workflow \in SelectWorkflow(workflow_id) :
          results' = [db |-> CheckDb(workflow)]
    /\ request' = workflow_id
    /\ UNCHANGED <<storeVars, envVars, method, response, cl, rs, rs2, sa>>

\* main() with --method api: the call succeeds with some body, or fails, or
\* cannot be made.
MainApi ==
    /\ method = "api"
    /\ results = <<>>
    /\ \E r \in {Answered(workflow_info) : workflow_info \in WorkflowInfos}
                   \cup {CallFailed, NoLibrary} :
          /\ response' = r
          /\ results' = [api |-> CheckApi(r)]
    /\ request' = None
    /\ UNCHANGED <<storeVars, envVars, method, cl, rs, rs2, sa>>

NextEval ==
    \/ \E workflow_id \in {None, EmptyId, UnknownWfId} \cup WfIds : MainDb(workflow_id)
    \/ MainApi

SpecEval == InitEval /\ [][NextEval]_vars

\* ===================================================== completion evaluator
DbRan == "db" \in DOMAIN results
ApiRan == "api" \in DOMAIN results
Has(r, key) == key \in DOMAIN r

\* The tasks of a phase, read off the Task rows.
TasksIn(phase_id) == {t \in TaskIds : tasks[t].phase_id = phase_id}
TasksWith(phase_id, statuses) == {t \in TasksIn(phase_id) : tasks[t].status \in statuses}

\* The rule of the specification for one phase, on the rows of the store.
RuleOnRows(phase_id) ==
    /\ TasksWith(phase_id, {"done"}) # {}
    /\ TasksWith(phase_id, {"assigned", "in_progress"}) = {}
    /\ TasksWith(phase_id, {"pending"}) = {}

\* The rule of the specification for one phase of an API body.
RuleOnBody(phase) ==
    /\ "completed_tasks" \in DOMAIN phase /\ phase["completed_tasks"] > 0
    /\ "active_tasks" \in DOMAIN phase => phase["active_tasks"] = 0
    /\ "pending_tasks" \in DOMAIN phase => phase["pending_tasks"] = 0

\* C1: both evaluators report a phase complete exactly when completed > 0,
\* active = 0 and pending = 0. Store source: every entry of the phase list
\* carries the counts of the phase's rows and complete = the rule on them, and
\* an entry with no task is not complete. API source: a workflow that is
\* neither inactive nor completed is reported complete through its phases
\* exactly when it has a phase and every phase satisfies the rule.
C1_PhaseCompleteRule ==
    /\ DbRan /\ Has(results.db, "phases") =>
          \A i \in DOMAIN results.db.phases :
             LET ps == results.db.phases[i] IN
             /\ ps.total_tasks = Cardinality(TasksIn(ps.phase_id))
             /\ ps.completed_tasks = Cardinality(TasksWith(ps.phase_id, {"done"}))
             /\ ps.active_tasks = Cardinality(TasksWith(ps.phase_id, {"assigned", "in_progress"}))
             /\ ps.pending_tasks = Cardinality(TasksWith(ps.phase_id, {"pending"}))
             /\ ps.complete <=>
                   (ps.completed_tasks > 0 /\ ps.active_tasks = 0 /\ ps.pending_tasks = 0)
             /\ ps.total_tasks = 0 => ~ps.complete
    /\ ApiRan /\ Has(results.api, "workflow_info")
          /\ results.api.workflow_info.status \notin {"inactive", "completed"} =>
          LET phs == results.api.workflow_info.phases IN
          results.api.complete <=>
             (Len(phs) > 0 /\ \A i \in DOMAIN phs : RuleOnBody(phs[i]))

\* C1 witness: a store report with a complete phase next to a phase without
\* tasks, which is reported incomplete.
C1_Witness ==
    /\ DbRan /\ Has(results.db, "phases")
    /\ \E i, j \in DOMAIN results.db.phases :
          /\ results.db.phases[i].complete
          /\ results.db.phases[j].total_tasks = 0
          /\ ~results.db.phases[j].complete

\* C2: a phase holding a failed task is reported incomplete by the store
\* evaluator; [done, done, failed] counts 2/0/0 of 3 and is not complete.
C2_FailedTaskIncomplete ==
    DbRan /\ Has(results.db, "phases") =>
       \A i \in DOMAIN results.db.phases :
          LET ps == results.db.phases[i] IN
          /\ TasksWith(ps.phase_id, {"failed"}) # {} => ~ps.complete
          /\ (Cardinality(TasksWith(ps.phase_id, {"done"})) = 2
                /\ Cardinality(TasksWith(ps.phase_id, {"failed"})) = 1
                /\ Cardinality(TasksIn(ps.phase_id)) = 3) =>
                (/\ ps.completed_tasks = 2 /\ ps.active_tasks = 0
                 /\ ps.pending_tasks = 0 /\ ps.total_tasks = 3
                 /\ ~ps.complete)

\* The three completion signals of the specification, for a Workflow row.
StatusSignal(w) == workflows[w] = "completed"
ResultSignal(w) == [workflow_id |-> w, status |-> "validated"] \in workflow_results
RollupSignal(w) ==
    /\ \E p \in PhaseIds : phases[p] = w
    /\ \A p \in PhaseIds : phases[p] = w => RuleOnRows(p)
AnySignal(w) == StatusSignal(w) \/ ResultSignal(w) \/ RollupSignal(w)

\* The workflow the store evaluator evaluated is the requested one: the row
\* with the given id, or with no id (or an empty one) an active or paused row;
\* None when there is no such row.
EvaluatedIsRequested ==
    LET w == results.db.workflow_id IN
    IF request \in WfIds THEN w = request
    ELSE IF request = UnknownWfId THEN w = None
    ELSE IF \E a \in WfIds : workflows[a] \in {"active", "paused"}
         THEN w \in WfIds /\ workflows[w] \in {"active", "paused"}
         ELSE w = None

\* C3, as stated: the store evaluator answers complete exactly when one of the
\* three signals holds for the requested workflow; with no workflow to
\* evaluate none of them holds.
C3_CompleteIffSignal ==
    DbRan =>
       /\ EvaluatedIsRequested
       /\ results.db.complete <=>
             (results.db.workflow_id # None /\ AnySignal(results.db.workflow_id))

\* C3, amended: the store evaluator answers complete exactly when there is no
\* workflow to evaluate or one of the three signals holds for the evaluated
\* workflow.
C3_CompleteIffSignalOrNoWorkflow ==
    DbRan =>
       /\ EvaluatedIsRequested
       /\ results.db.complete <=>
             (results.db.workflow_id = None \/ AnySignal(results.db.workflow_id))

\* C3 witness: an id that matches no row was evaluated, and the answer is
\* complete.
C3_Witness ==
    /\ DbRan /\ request = UnknownWfId
    /\ results.db.workflow_id = None /\ results.db.complete
    /\ \E w \in WfIds : ~AnySignal(w)

\* C4: when a validated WorkflowResult exists for the evaluated workflow the
\* store evaluator answers complete, whatever its phases and tasks are.
C4_ValidatedResultCompletes ==
    DbRan /\ results.db.workflow_id # None /\ ResultSignal(results.db.workflow_id) =>
       results.db.complete

\* C4 witness: complete by the validated result while a task of the workflow
\* is still pending.
C4_Witness ==
    /\ DbRan /\ results.db.workflow_id # None
    /\ results.db.complete /\ results.db.reason = "Workflow has validated result"
    /\ ResultSignal(results.db.workflow_id)
    /\ \E t \in TaskIds : /\ phases[tasks[t].phase_id] = results.db.workflow_id
                          /\ tasks[t].status = "pending"

\* The progress snapshot of a result that has one.
PercentageIsExact(progress) ==
    LET pct == progress.completion_percentage IN
    /\ pct.den # 0
    /\ progress.total_tasks = 0 => pct.num = 0
    /\ progress.total_tasks > 0 =>
          pct.num * progress.total_tasks = progress.completed_tasks * 100 * pct.den

\* C5: in the progress snapshot of either evaluator the totals are the sums
\* over the phases, completion_percentage is 0 when the total is 0 and
\* completed/total*100 otherwise, and no division by zero occurs.
C5_CompletionPercentage ==
    /\ DbRan /\ Has(results.db, "progress") =>
          LET w == results.db.workflow_id
              mine == {t \in TaskIds : phases[tasks[t].phase_id] = w}
          IN /\ results.db.progress.total_tasks = Cardinality(mine)
             /\ results.db.progress.completed_tasks =
                   Cardinality({t \in mine : tasks[t].status = "done"})
             /\ PercentageIsExact(results.db.progress)
    /\ ApiRan /\ Has(results.api, "progress") =>
          LET phs == results.api.workflow_info.phases IN
          /\ results.api.progress.total_tasks =
                SumSeq([i \in DOMAIN phs |-> Get(phs[i], "total_tasks", 0)])
          /\ results.api.progress.completed_tasks =
                SumSeq([i \in DOMAIN phs |-> Get(phs[i], "completed_tasks", 0)])
          /\ PercentageIsExact(results.api.progress)

\* C5 witness: a progress snapshot over zero tasks, with percentage 0.
C5_Witness ==
    /\ DbRan /\ Has(results.db, "progress")
    /\ results.db.progress.total_tasks = 0
    /\ results.db.progress.completion_percentage.num = 0

\* ============================================== cleanup_stale_worktrees.py
\* Text is a sequence of characters, a character a number. The records of the
\* worktree table: record 1 is at /tmp/wt-7 and record 2 at /tmp/wt-70, whose
\* path contains the path of record 1; the others at paths of their own.
WorktreePath(w) == IF w = 1 THEN <<7>> ELSE IF w = 2 THEN <<7, 0>> ELSE <<7 + w>>
BranchName(w) == <<100 + w>>
AgentOf(w) == w

\* One chunk of `git worktree list --porcelain` split at 'worktree ': the path
\* of the listed worktree, a line break, and the checked-out branch.
GitChunk(w) == WorktreePath(w) \o <<-1>> \o BranchName(w)

\* Python's `s in t` on strings.
IsSubstring(s, t) ==
    \E i \in 0..(Len(t) - Len(s)) : SubSeq(t, i + 1, i + Len(s)) = s

\* os.path.exists(wt.worktree_path)
ExistsOnDisk(w) == w \in disk

\* any(wt.worktree_path in w for w in git_worktrees)
InGitList(w) == \E g \in git_worktrees : IsSubstring(WorktreePath(w), GitChunk(g))

\* The query without its merge_status filter.
AnyWorktrees == WtIds

\* session.query(AgentWorktree).filter_by(merge_status='active').all()
ActiveWorktrees == {w \in WtIds : worktrees[w] = "active"}

\* IsStale requiring both checks to fail.
IsStaleBoth(exists_on_disk, in_git_list) == ~exists_on_disk /\ ~in_git_list

\* if not exists_on_disk or not in_git_list
IsStale(exists_on_disk, in_git_list) == ~exists_on_disk \/ ~in_git_list

\* The stale_worktrees list the loop over the query builds.
StaleWorktrees ==
    LET found == {w \in ActiveWorktrees : IsStale(ExistsOnDisk(w), InGitList(w))}
        ids == SortedSeq(found)
    IN [i \in 1..Len(ids) |->
          [worktree |-> ids[i],
           exists_on_disk |-> ExistsOnDisk(ids[i]),
           in_git_list |-> InGitList(ids[i]),
           agent_status |-> IF agents[AgentOf(ids[i])] = NoRow THEN "NOT_FOUND"
                            ELSE agents[AgentOf(ids[i])]]]

StaleIds(stale_worktrees) == {stale_worktrees[i].worktree : i \in DOMAIN stale_worktrees}

\* The else branch taken whatever dry_run is.
CleansAlways(dry_run) == TRUE

\* `if dry_run: ... else:` - whether the run goes on to clean.
Cleans(dry_run) == ~dry_run

\* The marking loop setting every active record, stale or not.
MarkAllActive(table, stale_worktrees) ==
    [w \in WtIds |-> IF table[w] = "active" THEN "cleaned" ELSE table[w]]

\* for item in stale_worktrees: wt.merge_status = 'cleaned'
MarkCleaned(table, stale_worktrees) ==
    [w \in WtIds |-> IF w \in StaleIds(stale_worktrees) THEN "cleaned" ELSE table[w]]

\* branches_to_delete: the branches of the stale records that the repository has.
BranchesToDelete(stale_worktrees) ==
    {BranchName(w) : w \in {x \in StaleIds(stale_worktrees) : BranchName(x) \in branches}}

\* The state of a run of cleanup_stale_worktrees: what the previous run was,
\* the rows and branches as the run found them, and how far it got.
CleanupRun(runs, prev) ==
    [pc |-> "scan", runs |-> runs, prev |-> prev,
     before |-> worktrees, branches_before |-> branches]

\* The call starts: get_config() and git.Repo(...) succeeded and the worktree
\* list was read; the stale list is built, and printed. Nothing stale: return.
\* Dry run: return after the listing. Else the records are marked in the
\* session, not yet committed.
CleanupScan(dry_run) ==
    /\ cl.pc \in {"idle", "done"}
    /\ Get(cl, "runs", 0) < MaxRuns
    /\ LET run == CleanupRun(Get(cl, "runs", 0) + 1,
                             IF cl.pc = "idle" THEN [outcome |-> "none", dry_run |-> TRUE]
                             ELSE [outcome |-> cl.outcome, dry_run |-> cl.dry_run])
           stale_worktrees == StaleWorktrees
       IN cl' = IF stale_worktrees = <<>>
                THEN [run EXCEPT !.pc = "done"] @@
                     [dry_run |-> dry_run, stale_worktrees |-> stale_worktrees,
                      outcome |-> "nothing stale", deleted |-> {}]
                ELSE IF ~Cleans(dry_run)
                THEN [run EXCEPT !.pc = "done"] @@
                     [dry_run |-> dry_run, stale_worktrees |-> stale_worktrees,
                      outcome |-> "dry run", deleted |-> {}]
                ELSE [run EXCEPT !.pc = "marked"] @@
                     [dry_run |-> dry_run, stale_worktrees |-> stale_worktrees,
                      outcome |-> "running", deleted |-> {}]
    /\ UNCHANGED <<storeVars, envVars, evalVars, rs, rs2, sa>>

\* get_config(), git.Repo(...) or the worktree listing raised: the except
\* branch prints the error and rolls back a session that holds no change.
CleanupSetupFails(dry_run) ==
    /\ cl.pc \in {"idle", "done"}
    /\ Get(cl, "runs", 0) < MaxRuns
    /\ cl' = [CleanupRun(Get(cl, "runs", 0) + 1,
                         IF cl.pc = "idle" THEN [outcome |-> "none", dry_run |-> TRUE]
                             ELSE [outcome |-> cl.outcome, dry_run |-> cl.dry_run])
                EXCEPT !.pc = "done"] @@
             [dry_run |-> dry_run, stale_worktrees |-> <<>>,
              outcome |-> "setup failed", deleted |-> {}]
    /\ UNCHANGED <<storeVars, envVars, evalVars, rs, rs2, sa>>

\* session.commit() succeeds: the marked rows reach the store.
CleanupCommit ==
    /\ cl.pc = "marked"
    /\ worktrees' = MarkCleaned(worktrees, cl.stale_worktrees)
    /\ cl' = [cl EXCEPT !.pc = "committed"]
    /\ UNCHANGED <<workflows, workflow_results, phases, tasks, agents, current_task, envVars, evalVars, rs, rs2, sa>>

\* A failed commit that left the first marked record written.
PartlyMarked(table, stale_worktrees) ==
    [w \in WtIds |->
        IF stale_worktrees # <<>> /\ stale_worktrees[1].worktree = w THEN "cleaned" ELSE table[w]]

\* session.rollback() in the except branch: the records the session marked
\* were never written, the store keeps every record as it is.
MarkRolledBack(table, stale_worktrees) == table

\* session.commit() raises: the except branch rolls the session back, and
\* the branch clean-up is not reached.
CleanupCommitFails ==
    /\ cl.pc = "marked"
    /\ worktrees' = MarkRolledBack(worktrees, cl.stale_worktrees)
    /\ cl' = [cl EXCEPT !.pc = "done", !.outcome = "commit failed"]
    /\ UNCHANGED <<workflows, workflow_results, phases, tasks, agents, current_task, envVars, evalVars, rs, rs2, sa>>

\* The deletion loop ending at the first branch whose deletion fails.
AttemptedUntilFailure(branches_to_delete, failed) ==
    {b \in branches_to_delete : \A f \in failed : b[1] <= f[1]}

\* for branch in branches_to_delete: `git branch -D` is tried on every branch
\* of the list, a deletion that fails is only printed.
Attempted(branches_to_delete, failed) == branches_to_delete

\* The branch clean-up after the commit: the branch of each stale record is
\* looked up in the repository (a lookup that raises is only printed and the
\* branch left out), then each branch found is deleted with `git branch -D`.
CleanupBranches ==
    /\ cl.pc = "committed"
    /\ \E unchecked \in SUBSET BranchesToDelete(cl.stale_worktrees) :
       \E failed \in SUBSET (BranchesToDelete(cl.stale_worktrees) \ unchecked) :
          LET branches_to_delete == BranchesToDelete(cl.stale_worktrees) \ unchecked
              attempted == Attempted(branches_to_delete, failed)
          IN /\ branches' = branches \ (attempted \ failed)
             /\ cl' = [cl EXCEPT !.pc = "done", !.outcome = "cleaned",
                                 !.deleted = attempted \ failed] @@
                      [branches_to_delete |-> branches_to_delete,
                       attempted |-> attempted, failed |-> failed \cap attempted]
    /\ UNCHANGED <<storeVars, disk, git_worktrees, evalVars, rs, rs2, sa>>

\* Any worktree table, any disk, any listing, any set of branches; the owning
\* agents are terminated, missing or working in turn. The disk and the listing
\* stay as they are while the script runs, once or several times in a row.
InitCleanup ==
    /\ worktrees \in [WtIds -> MergeStatuses]
    /\ agents = [a \in WtIds |-> IF a % 3 = 1 THEN "terminated"
                                 ELSE IF a % 3 = 2 THEN NoRow ELSE "working"]
    /\ current_task = [a \in WtIds |-> None]
    /\ disk \in SUBSET WtIds
    /\ git_worktrees \in SUBSET WtIds
    /\ branches \in SUBSET {BranchName(w) : w \in WtIds}
    /\ workflows = [w \in WfIds |-> "completed"]
    /\ workflow_results = {}
    /\ phases = [p \in PhaseIds |-> None]
    /\ tasks = [t \in TaskIds |-> PlainTask(1, "done")]
    /\ method = "db"
    /\ request = None
    /\ results = <<>>
    /\ response = NoResponse
    /\ cl = NoRun
    /\ rs = NoRun
    /\ rs2 = NoRun
    /\ sa = NoRun

NextCleanup ==
    \/ \E dry_run \in BOOLEAN : CleanupScan(dry_run)
    \/ \E dry_run \in BOOLEAN : CleanupSetupFails(dry_run)
    \/ CleanupCommit
    \/ CleanupCommitFails
    \/ CleanupBranches

SpecCleanup == InitCleanup /\ [][NextCleanup]_vars

\* ==================================================== staleness detector
\* A run of cleanup_stale_worktrees that built its stale list.
Scanned == cl.pc \in {"marked", "committed", "done"} /\ cl.outcome # "setup failed"

C7_DryRunMutatesNothing ==
    cl.pc # "idle" /\ cl.dry_run =>
       /\ cl.pc = "done"
       /\ worktrees = cl.before
       /\ branches = cl.branches_before
       /\ cl.deleted = {}

\* C7 witness: a dry run that found stale records.
C7_Witness ==
    /\ cl.pc = "done" /\ cl.dry_run /\ cl.outcome = "dry run"
    /\ cl.stale_worktrees # <<>>
    /\ \E w \in StaleIds(cl.stale_worktrees) : BranchName(w) \in branches

\* C8: once an execute run has committed (or found nothing to commit), every
\* record of the stale list is cleaned and every other record has the
\* merge_status it had before the run.
C8_ExecuteCleansExactlyStale ==
    (/\ cl.pc \in {"committed", "done"}
     /\ ~cl.dry_run
     /\ cl.outcome \in {"running", "cleaned", "nothing stale"}) =>
       \A w \in WtIds :
          IF w \in StaleIds(cl.stale_worktrees)
          THEN worktrees[w] = "cleaned"
          ELSE worktrees[w] = cl.before[w]

\* C8 witness: an execute run cleaned a stale record and left a healthy active
\* record active.
C8_Witness ==
    /\ cl.pc = "done" /\ cl.outcome = "cleaned"
    /\ \E w \in WtIds : /\ w \in StaleIds(cl.stale_worktrees)
                        /\ cl.before[w] = "active" /\ worktrees[w] = "cleaned"
    /\ \E w \in WtIds : /\ w \notin StaleIds(cl.stale_worktrees)
                        /\ cl.before[w] = "active" /\ worktrees[w] = "active"

\* An execute run that directly follows an execute run that ended without error.
SecondExecuteRun ==
    /\ cl.pc # "idle" /\ cl.runs >= 2
    /\ ~cl.dry_run /\ cl.outcome # "setup failed"
    /\ ~cl.prev.dry_run /\ cl.prev.outcome \in {"cleaned", "nothing stale"}

\* C9: an execute run that follows an execute run, the disk and the listing
\* being the same, finds no stale record, marks none and deletes no branch.
C9_SecondExecuteFindsNothing ==
    SecondExecuteRun =>
       /\ cl.stale_worktrees = <<>>
       /\ cl.pc = "done" /\ cl.outcome = "nothing stale"
       /\ worktrees = cl.before
       /\ branches = cl.branches_before
       /\ cl.deleted = {}

\* C9 witness: the second run followed a run that cleaned records, one of
\* whose branches could not be deleted and is still there.
C9_Witness ==
    /\ SecondExecuteRun
    /\ cl.prev.outcome = "cleaned"
    /\ \E w \in WtIds : /\ worktrees[w] = "cleaned" /\ w \notin disk
                        /\ BranchName(w) \in branches

\* ============================================= restart_stalled_workflow.py
\* session.query(Task).filter_by(status='failed').all(), in id order.
FailedTasks == SortedSeq({t \in TaskIds : tasks[t].status = "failed"})

\* The reset of one task forgetting to clear completed_at.
ResetTaskKeepsCompletedAt(row) ==
    [row EXCEPT !.status = "queued", !.failure_reason = None,
                !.assigned_agent_id = None, !.started_at = None]

\* The body of the reset loop, on one Task row.
ResetTask(row) ==
    [row EXCEPT !.status = "queued", !.failure_reason = None,
                !.assigned_agent_id = None, !.started_at = None,
                !.completed_at = None]

\* The rows the commit writes. The session updates, for each task it reset,
\* the columns whose value the reset changed from the one it had loaded; the
\* other columns and the other rows stay as the store has them.
ResetTasks(table, loaded, failed_tasks) ==
    [t \in TaskIds |->
        IF \E i \in DOMAIN failed_tasks : failed_tasks[i] = t
        THEN [column \in DOMAIN table[t] |->
                 IF ResetTask(loaded[t])[column] # loaded[t][column]
                 THEN ResetTask(loaded[t])[column] ELSE table[t][column]]
        ELSE table[t]]

RestartRun(runs) == [pc |-> "select", runs |-> runs, before |-> tasks, calls |-> <<>>]

\* The call starts: the database manager, the configuration and the queue
\* service were built and the failed tasks queried. None: return. Else they
\* are listed and reset in the session, and their ids collected in task_ids.
RestartSelect ==
    /\ rs.pc \in {"idle", "done"}
    /\ Get(rs, "runs", 0) < MaxRuns
    /\ LET run == RestartRun(Get(rs, "runs", 0) + 1)
           failed_tasks == FailedTasks
       IN rs' = IF failed_tasks = <<>>
                THEN [run EXCEPT !.pc = "done"] @@
                     [failed_tasks |-> failed_tasks, task_ids |-> <<>>,
                      outcome |-> "no failed tasks"]
                ELSE [run EXCEPT !.pc = "reset"] @@
                     [failed_tasks |-> failed_tasks, task_ids |-> failed_tasks,
                      outcome |-> "running"]
    /\ UNCHANGED <<storeVars, envVars, evalVars, cl, rs2, sa>>

\* The queue service built only after the commit: its constructor raises once
\* the reset rows are written.
RestartSetupFailsAfterCommit ==
    /\ rs.pc \in {"idle", "done"}
    /\ Get(rs, "runs", 0) < MaxRuns
    /\ tasks' = [t \in TaskIds |->
                    IF tasks[t].status = "failed" THEN ResetTask(tasks[t]) ELSE tasks[t]]
    /\ rs' = [RestartRun(Get(rs, "runs", 0) + 1) EXCEPT !.pc = "done"] @@
             [failed_tasks |-> <<>>, task_ids |-> <<>>, outcome |-> "setup failed"]
    /\ UNCHANGED <<workflows, workflow_results, phases, worktrees, agents, current_task, envVars, evalVars, cl, rs2, sa>>

\* DatabaseManager(), get_config(), QueueService(...) or the query raised:
\* the run ends with nothing reset and nothing enqueued.
RestartSetupFails ==
    /\ rs.pc \in {"idle", "done"}
    /\ Get(rs, "runs", 0) < MaxRuns
    /\ rs' = [RestartRun(Get(rs, "runs", 0) + 1) EXCEPT !.pc = "done"] @@
             [failed_tasks |-> <<>>, task_ids |-> <<>>, outcome |-> "setup failed"]
    /\ UNCHANGED <<storeVars, envVars, evalVars, cl, rs2, sa>>

\* session.commit() succeeds: the reset rows reach the store in one transaction.
RestartCommit ==
    /\ rs.pc = "reset"
    /\ tasks' = ResetTasks(tasks, rs.before, rs.failed_tasks)
    /\ rs' = [rs EXCEPT !.pc = "enqueue"]
    /\ UNCHANGED <<workflows, workflow_results, phases, worktrees, agents, current_task, envVars, evalVars, cl, rs2, sa>>

\* A failed commit that left the first reset row written.
PartlyWritten(table, failed_tasks) ==
    [t \in TaskIds |->
        IF failed_tasks # <<>> /\ failed_tasks[1] = t THEN ResetTask(table[t]) ELSE table[t]]

\* session.rollback() in the except branch: the rows the session changed were
\* never written, the store keeps every row as it is.
RolledBack(table, failed_tasks) == table

\* session.commit() raises: the except branch rolls the session back and the
\* function returns without reaching the enqueue loop.
RestartCommitFails ==
    /\ rs.pc = "reset"
    /\ tasks' = RolledBack(tasks, rs.failed_tasks)
    /\ rs' = [rs EXCEPT !.pc = "done", !.outcome = "commit failed"]
    /\ UNCHANGED <<workflows, workflow_results, phases, worktrees, agents, current_task, envVars, evalVars, cl, rs2, sa>>

\* The enqueue loop started before the commit.
RestartEnqueueEarly ==
    /\ rs.pc \in {"reset", "enqueue"}
    /\ \E ok \in BOOLEAN :
          LET calls == Append(rs.calls, [task_id |-> rs.task_ids[Len(rs.calls) + 1], ok |-> ok])
          IN rs' = IF Len(calls) = Len(rs.task_ids)
                   THEN [rs EXCEPT !.calls = calls, !.pc = "done", !.outcome = "completed"]
                   ELSE [rs EXCEPT !.calls = calls]
    /\ UNCHANGED <<storeVars, envVars, evalVars, cl, rs2, sa>>

\* The enqueue loop without its inner try: the first raise of enqueue_task
\* ends the loop.
RestartEnqueueAborts ==
    /\ rs.pc = "enqueue"
    /\ \E ok \in BOOLEAN :
          LET calls == Append(rs.calls, [task_id |-> rs.task_ids[Len(rs.calls) + 1], ok |-> ok])
          IN rs' = IF ~ok
                   THEN [rs EXCEPT !.calls = calls, !.pc = "done", !.outcome = "enqueue failed"]
                   ELSE IF Len(calls) = Len(rs.task_ids)
                   THEN [rs EXCEPT !.calls = calls, !.pc = "done", !.outcome = "completed"]
                   ELSE [rs EXCEPT !.calls = calls]
    /\ UNCHANGED <<storeVars, envVars, evalVars, cl, rs2, sa>>

\* One turn of the enqueue loop: queue_service.enqueue_task(task_id) returns or
\* raises, and a raise is only printed. After the last id the run is complete.
RestartEnqueue ==
    /\ rs.pc = "enqueue"
    /\ \E ok \in BOOLEAN :
          LET calls == Append(rs.calls, [task_id |-> rs.task_ids[Len(rs.calls) + 1], ok |-> ok])
          IN rs' = IF Len(calls) = Len(rs.task_ids)
                   THEN [rs EXCEPT !.calls = calls, !.pc = "done", !.outcome = "completed"]
                   ELSE [rs EXCEPT !.calls = calls]
    /\ UNCHANGED <<storeVars, envVars, evalVars, cl, rs2, sa>>

\* The Task rows restart_failed_tasks can meet: a failed task with or without
\* a failure reason, an agent and timestamps; any other task as the platform
\* leaves it.
RestartTaskRows ==
    {PlainTask(1, s) : s \in TaskStatuses \ {"failed"}}
       \cup {TaskRow(1, "failed", r, x[1], x[2], x[3]) :
                r \in {None, 1}, x \in {<<None, None, None>>, <<1, None, None>>,
                                        <<1, 1, None>>, <<1, 1, 1>>}}

InitRestart ==
    /\ tasks \in [TaskIds -> RestartTaskRows]
    /\ workflows = [w \in WfIds |-> "active"]
    /\ workflow_results = {}
    /\ phases = [p \in PhaseIds |-> 1]
    /\ worktrees = [w \in WtIds |-> "cleaned"]
    /\ agents = [a \in WtIds |-> NoRow]
    /\ current_task = [a \in WtIds |-> None]
    /\ NoEnv
    /\ method = "db"
    /\ request = None
    /\ results = <<>>
    /\ response = NoResponse
    /\ cl = NoRun
    /\ rs = NoRun
    /\ rs2 = NoRun
    /\ sa = NoRun

NextRestart ==
    \/ RestartSelect
    \/ RestartSetupFails
    \/ RestartCommit
    \/ RestartCommitFails
    \/ RestartEnqueue

SpecRestart == InitRestart /\ [][NextRestart]_vars

\* ======================================================= failed-task reset
\* C10: once restart_failed_tasks has committed, every task that was failed
\* when selected is queued with failure_reason, assigned_agent_id, started_at
\* and completed_at cleared, and every other task has all its fields unchanged.
C10_ResetExactlyFailed ==
    rs.pc \in {"enqueue", "done"} /\ rs.outcome \in {"running", "completed"} =>
       \A t \in TaskIds :
          IF rs.before[t].status = "failed"
          THEN /\ tasks[t].status = "queued"
               /\ tasks[t].failure_reason = None
               /\ tasks[t].assigned_agent_id = None
               /\ tasks[t].started_at = None
               /\ tasks[t].completed_at = None
               /\ tasks[t].phase_id = rs.before[t].phase_id
          ELSE tasks[t] = rs.before[t]

\* C10 witness: a failed task that had a reason, an agent and both timestamps
\* was reset, next to a done task that kept its agent and timestamps.
C10_Witness ==
    /\ rs.pc = "enqueue"
    /\ \E t \in TaskIds :
          /\ rs.before[t] = TaskRow(1, "failed", 1, 1, 1, 1)
          /\ tasks[t] = TaskRow(1, "queued", None, None, None, None)
    /\ \E t \in TaskIds :
          /\ rs.before[t].status = "done" /\ tasks[t] = rs.before[t]
          /\ tasks[t].completed_at # None

\* ================================================ reset and queue admission
\* The run committed its reset: the enqueue loop is running or has run.
RestartCommitted ==
    /\ rs.pc \in {"enqueue", "done"}
    /\ rs.outcome \notin {"no failed tasks", "setup failed", "commit failed"}

\* C11: the reset of restart_failed_tasks is all-or-nothing. While the batch
\* is only changed in the session, and after a commit that failed, every task
\* of the store is as it was when the run started (the selected tasks are
\* still failed, none is queued by this run) and enqueue_task was not called.
C11_FailedCommitResetsNothing ==
    (rs.pc = "reset" \/ (rs.pc = "done" /\ rs.outcome = "commit failed")) =>
       /\ tasks = rs.before
       /\ \A i \in DOMAIN rs.failed_tasks : tasks[rs.failed_tasks[i]].status = "failed"
       /\ rs.calls = <<>>

\* C11 witness: two failed tasks were selected, the commit failed, the run is
\* over and both are still failed.
C11_Witness ==
    /\ rs.pc = "done" /\ rs.outcome = "commit failed"
    /\ Len(rs.failed_tasks) >= 2
    /\ \A i \in DOMAIN rs.failed_tasks : tasks[rs.failed_tasks[i]].status = "failed"

\* C12: enqueue_task is called only after the one transaction that resets all
\* the selected tasks has committed, and only for a task that was failed at
\* selection and that the commit set to queued.
C12_EnqueueAfterCommit ==
    rs.pc # "idle" /\ rs.calls # <<>> =>
       /\ RestartCommitted
       /\ \A i \in DOMAIN rs.failed_tasks : tasks[rs.failed_tasks[i]].status = "queued"
       /\ \A i \in DOMAIN rs.calls :
             /\ \E j \in DOMAIN rs.failed_tasks : rs.failed_tasks[j] = rs.calls[i].task_id
             /\ rs.before[rs.calls[i].task_id].status = "failed"
             /\ tasks[rs.calls[i].task_id].status = "queued"

\* C12 witness: the first of two reset tasks was submitted, the second not
\* yet, and both are already queued in the store.
C12_Witness ==
    /\ rs.pc = "enqueue"
    /\ Len(rs.calls) = 1 /\ Len(rs.task_ids) >= 2
    /\ \A i \in DOMAIN rs.task_ids : tasks[rs.task_ids[i]].status = "queued"

\* C13: a failed admission neither undoes the committed reset nor stops the
\* loop. After the commit the calls made are the first ids of task_ids in
\* order, every reset task stays queued, and when the run is over every reset
\* task was submitted exactly once, whichever calls failed.
C13_EveryResetTaskSubmittedOnce ==
    rs.pc # "idle" /\ RestartCommitted =>
       /\ Len(rs.calls) <= Len(rs.task_ids)
       /\ \A i \in DOMAIN rs.calls : rs.calls[i].task_id = rs.task_ids[i]
       /\ (rs.pc = "done" => Len(rs.calls) = Len(rs.task_ids))
       /\ \A i \in DOMAIN rs.task_ids :
             /\ rs.before[rs.task_ids[i]].status = "failed"
             /\ tasks[rs.task_ids[i]].status = "queued"
             /\ \A j \in DOMAIN rs.task_ids : rs.task_ids[j] = rs.task_ids[i] => j = i

\* C13 witness: the admission of the first reset task failed, a later one was
\* accepted, the run is over and both tasks are queued.
C13_Witness ==
    /\ rs.pc = "done" /\ rs.outcome = "completed"
    /\ Len(rs.calls) >= 2
    /\ ~rs.calls[1].ok /\ rs.calls[2].ok
    /\ \A i \in DOMAIN rs.calls : tasks[rs.calls[i].task_id].status = "queued"

\* ======================================================== branch clean-up
\* The branches of the stale records of the run.
StaleBranches == {BranchName(w) : w \in StaleIds(cl.stale_worktrees)}

\* C20: in execute mode no branch is touched before the merge_status changes
\* of the whole batch are committed; once the branch clean-up has run, every
\* branch it tried is the branch of a stale record and existed, every branch
\* of its list was tried whichever deletions failed, only the tried ones that
\* did not fail are gone, and every stale record is still cleaned.
C20_BranchesAfterCommit ==
    /\ cl.pc \in {"marked", "committed"} => branches = cl.branches_before
    /\ cl.pc = "done" /\ cl.outcome # "cleaned" => branches = cl.branches_before
    /\ cl.pc = "done" /\ cl.outcome = "cleaned" =>
          /\ \A w \in StaleIds(cl.stale_worktrees) : worktrees[w] = "cleaned"
          /\ cl.attempted \subseteq StaleBranches \cap cl.branches_before
          /\ cl.attempted = cl.branches_to_delete
          /\ cl.deleted = cl.attempted \ cl.failed
          /\ branches = cl.branches_before \ cl.deleted

\* C20 witness: two branches of stale records were to be deleted, the first
\* deletion failed, the second was still tried and succeeded, and both
\* records are cleaned.
C20_Witness ==
    /\ cl.pc = "done" /\ cl.outcome = "cleaned"
    /\ \E b, c \in cl.attempted :
          /\ b[1] < c[1]
          /\ b \in cl.failed /\ b \in branches
          /\ c \in cl.deleted /\ c \notin branches
    /\ \A w \in StaleIds(cl.stale_worktrees) : worktrees[w] = "cleaned"

\* ============================================== restart_stalled_agents.py
\* One Agent row per worktree id.
AgentIds == WtIds
AgentStatuses == {"idle", "working", "running", "stuck", "terminated"}

\* What the script prints for one restart_task request: success true, success
\* false, HTTP 400, another HTTP error status, a transport error, or any
\* other exception.
RestartOutcomes ==
    {"restarted", "failed to restart", "not ready", "http error", "request error", "error"}

\* What a restart_task request gives: no response (time-out or transport
\* error), an error status, or a 2xx answer whose body says success, says no
\* success, or cannot be read.
RestartResponses ==
    {[status |-> 200, body |-> b] : b \in {"success", "no success", "unreadable"}}
       \cup {[status |-> s, body |-> "none"] : s \in {None, 400, 500}}

\* The restart loop without the status_code == 400 test.
RestartOutcomeAnyStatus(r) ==
    IF r.status = None THEN "request error"
    ELSE IF r.status # 200 THEN "http error"
    ELSE IF r.body = "success" THEN "restarted"
    ELSE IF r.body = "no success" THEN "failed to restart"
    ELSE "error"

\* The branch of the restart loop a response ends in, named by what it
\* prints.
RestartOutcome(r) ==
    IF r.status = None THEN "request error"
    ELSE IF r.status = 400 THEN "not ready"
    ELSE IF r.status # 200 THEN "http error"
    ELSE IF r.body = "success" THEN "restarted"
    ELSE IF r.body = "no success" THEN "failed to restart"
    ELSE "error"

\* Every agent that has a row, whatever its status.
ActiveAgentsAnyStatus == SortedSeq({a \in AgentIds : agents[a] # NoRow})

\* session.query(Agent).filter(Agent.status.in_(['working', 'running', 'stuck'])).all()
ActiveAgents == SortedSeq({a \in AgentIds : agents[a] \in {"working", "running", "stuck"}})

\* task_ids_to_restart: the current_task_id of each selected agent that has
\* one, in the order of the agents; two agents on one task list it twice.
TaskIdsToRestart(active_agents) ==
    SelectSeq([i \in DOMAIN active_agents |-> current_task[active_agents[i]]],
              LAMBDA task_id : task_id # None)

\* The restart loop reading the agents' tasks again after the terminations.
RestartQueueReread(run) == TaskIdsToRestart(run.active_agents)

\* for task_id in task_ids_to_restart: the list built before Step 1.
RestartQueue(run) == run.task_ids_to_restart

\* The control plane terminated the agent: the agent is terminated, its task
\* is marked failed, and the attachment is cleared or not.
TerminatedAgent(table, agent_id) == [table EXCEPT ![agent_id] = "terminated"]
TerminatedTask(table, task_id) ==
    IF task_id = None THEN table ELSE [table EXCEPT ![task_id].status = "failed"]
TerminatedAttachment(table, agent_id, cleared) ==
    IF cleared THEN [table EXCEPT ![agent_id] = None] ELSE table

\* The control plane accepted the restart: the task is given to a new agent.
RestartedTask(table, task_id) == [table EXCEPT ![task_id].status = "assigned"]

StalledRun ==
    [pc |-> "select", status_read |-> agents, task_read |-> current_task,
     terminations |-> <<>>, slept |-> FALSE, restarts |-> <<>>]

\* The call starts: the session is open and the active agents are queried.
\* None: return. Else the task ids are collected and Step 1 begins.
StalledSelect ==
    /\ sa.pc = "idle"
    /\ LET active_agents == ActiveAgents
       IN sa' = IF active_agents = <<>>
                THEN [StalledRun EXCEPT !.pc = "done"] @@
                     [active_agents |-> <<>>, task_ids_to_restart |-> <<>>,
                      outcome |-> "no active agents"]
                ELSE [StalledRun EXCEPT !.pc = "terminate"] @@
                     [active_agents |-> active_agents,
                      task_ids_to_restart |-> TaskIdsToRestart(active_agents),
                      outcome |-> "running"]
    /\ UNCHANGED <<storeVars, envVars, evalVars, cl, rs, rs2>>

\* DatabaseManager(), get_session() or the query raised: the exception leaves
\* the function before any request.
StalledSetupFails ==
    /\ sa.pc = "idle"
    /\ sa' = [StalledRun EXCEPT !.pc = "done"] @@
             [active_agents |-> <<>>, task_ids_to_restart |-> <<>>, outcome |-> "setup failed"]
    /\ UNCHANGED <<storeVars, envVars, evalVars, cl, rs, rs2>>

\* Step 1 without its inner try: the first failed request ends the run.
StalledTerminateAborts ==
    /\ sa.pc = "terminate"
    /\ LET agent_id == sa.active_agents[Len(sa.terminations) + 1]
       IN \E ok \in BOOLEAN, cleared \in BOOLEAN :
             /\ ~ok => ~cleared
             /\ LET terminations == Append(sa.terminations, [agent_id |-> agent_id, ok |-> ok])
                IN sa' = IF ~ok
                         THEN [sa EXCEPT !.terminations = terminations, !.pc = "done",
                                         !.outcome = "terminate failed"]
                         ELSE [sa EXCEPT !.terminations = terminations,
                                         !.pc = IF Len(terminations) = Len(sa.active_agents)
                                                THEN "sleep" ELSE "terminate"]
             /\ IF ok
                THEN /\ agents' = TerminatedAgent(agents, agent_id)
                     /\ tasks' = TerminatedTask(tasks, current_task[agent_id])
                     /\ current_task' = TerminatedAttachment(current_task, agent_id, cleared)
                ELSE UNCHANGED <<agents, tasks, current_task>>
    /\ UNCHANGED <<workflows, workflow_results, phases, worktrees, envVars, evalVars, cl, rs, rs2>>

\* One turn of Step 1: POST /api/terminate_agent for the next selected agent.
\* The request succeeds and the control plane terminates the agent, or it
\* fails (status, transport, timeout), which is only printed. After the last
\* agent the run waits.
StalledTerminate ==
    /\ sa.pc = "terminate"
    /\ LET agent_id == sa.active_agents[Len(sa.terminations) + 1]
       IN \E ok \in BOOLEAN, cleared \in BOOLEAN :
             /\ ~ok => ~cleared
             /\ LET terminations == Append(sa.terminations, [agent_id |-> agent_id, ok |-> ok])
                IN sa' = [sa EXCEPT !.terminations = terminations,
                                    !.pc = IF Len(terminations) = Len(sa.active_agents)
                                           THEN "sleep" ELSE "terminate"]
             /\ IF ok
                THEN /\ agents' = TerminatedAgent(agents, agent_id)
                     /\ tasks' = TerminatedTask(tasks, current_task[agent_id])
                     /\ current_task' = TerminatedAttachment(current_task, agent_id, cleared)
                ELSE UNCHANGED <<agents, tasks, current_task>>
    /\ UNCHANGED <<workflows, workflow_results, phases, worktrees, envVars, evalVars, cl, rs, rs2>>

\* await asyncio.sleep(2), once for the whole batch; with nothing to restart
\* the run is complete after it.
StalledSleep ==
    /\ sa.pc = "sleep"
    /\ sa' = IF RestartQueue(sa) = <<>>
             THEN [sa EXCEPT !.slept = TRUE, !.pc = "done", !.outcome = "completed"]
             ELSE [sa EXCEPT !.slept = TRUE, !.pc = "restart"]
    /\ UNCHANGED <<storeVars, envVars, evalVars, cl, rs, rs2>>

\* A restart request sent while agents are still being terminated or before
\* the delay.
StalledRestartEarly ==
    /\ sa.pc \in {"terminate", "sleep", "restart"}
    /\ Len(sa.restarts) < Len(RestartQueue(sa))
    /\ LET task_id == RestartQueue(sa)[Len(sa.restarts) + 1]
       IN \E r \in RestartResponses :
          LET outcome == RestartOutcome(r) IN
             /\ LET restarts == Append(sa.restarts,
                                       [task_id |-> task_id, response |-> r, outcome |-> outcome])
                IN sa' = IF sa.pc = "restart" /\ Len(restarts) >= Len(RestartQueue(sa))
                         THEN [sa EXCEPT !.restarts = restarts, !.pc = "done",
                                         !.outcome = "completed"]
                         ELSE [sa EXCEPT !.restarts = restarts]
             /\ tasks' = IF outcome = "restarted" THEN RestartedTask(tasks, task_id) ELSE tasks
    /\ UNCHANGED <<workflows, workflow_results, phases, worktrees, agents, current_task,
                   envVars, evalVars, cl, rs, rs2>>

\* One turn of Step 2: POST /api/restart_task for the next collected task id;
\* whatever the outcome it is only printed. After the last id the run is
\* complete.
StalledRestart ==
    /\ sa.pc = "restart"
    /\ LET task_id == RestartQueue(sa)[Len(sa.restarts) + 1]
       IN \E r \in RestartResponses :
          LET outcome == RestartOutcome(r) IN
             /\ LET restarts == Append(sa.restarts,
                                       [task_id |-> task_id, response |-> r, outcome |-> outcome])
                IN sa' = IF Len(restarts) >= Len(RestartQueue(sa))
                         THEN [sa EXCEPT !.restarts = restarts, !.pc = "done",
                                         !.outcome = "completed"]
                         ELSE [sa EXCEPT !.restarts = restarts]
             /\ tasks' = IF outcome = "restarted" THEN RestartedTask(tasks, task_id) ELSE tasks
    /\ UNCHANGED <<workflows, workflow_results, phases, worktrees, agents, current_task,
                   envVars, evalVars, cl, rs, rs2>>

\* Any status for each agent; an agent has no task, a task of its own, or the
\* task of its neighbour (two agents can hold the same task id). The tasks
\* are in progress.
InitStalled ==
    /\ agents \in [AgentIds -> AgentStatuses]
    /\ current_task \in {f \in [AgentIds -> TaskIds \cup {None}] :
                            \A a \in AgentIds : f[a] \in {None, a, (a % NumWorktrees) + 1}}
    /\ tasks = [t \in TaskIds |-> PlainTask(1, "in_progress")]
    /\ workflows = [w \in WfIds |-> "active"]
    /\ workflow_results = {}
    /\ phases = [p \in PhaseIds |-> 1]
    /\ worktrees = [w \in WtIds |-> "cleaned"]
    /\ NoEnv
    /\ method = "db"
    /\ request = None
    /\ results = <<>>
    /\ response = NoResponse
    /\ cl = NoRun
    /\ rs = NoRun
    /\ rs2 = NoRun
    /\ sa = NoRun

NextStalled ==
    \/ StalledSelect
    \/ StalledSetupFails
    \/ StalledTerminate
    \/ StalledSleep
    \/ StalledRestart

SpecStalled == InitStalled /\ [][NextStalled]_vars

\* ================================================= stalled-agent restart
\* The agent was working, running or stuck when the run queried the agents.
SelectedAtRead(a) == sa.status_read[a] \in {"working", "running", "stuck"}

\* The non-empty current_task_id values of the selected agents as the run
\* read them, before the first termination request, in the agents' order.
TasksAtRead ==
    SelectSeq([i \in DOMAIN sa.active_agents |-> sa.task_read[sa.active_agents[i]]],
              LAMBDA task_id : task_id # None)

RestartedTaskIds == {sa.restarts[i].task_id : i \in DOMAIN sa.restarts}

\* C14: restart_stalled_agents asks to terminate only agents that were
\* working, running or stuck at selection, and asks to restart only a task
\* that was the current_task_id of such an agent; a task attached only to
\* idle or terminated agents is never restarted, and with no such agent no
\* request is made and the store is untouched.
C14_OnlyActiveAgentsAndTheirTasks ==
    sa.pc # "idle" =>
       /\ \A i \in DOMAIN sa.terminations : SelectedAtRead(sa.terminations[i].agent_id)
       /\ \A t \in RestartedTaskIds :
             \E a \in AgentIds : SelectedAtRead(a) /\ sa.task_read[a] = t
       /\ \A t \in TaskIds :
             (/\ \E a \in AgentIds : sa.task_read[a] = t
              /\ \A a \in AgentIds :
                    sa.task_read[a] = t => sa.status_read[a] \in {"idle", "terminated"})
                => t \notin RestartedTaskIds
       /\ (\A a \in AgentIds : ~SelectedAtRead(a)) =>
             /\ sa.terminations = <<>> /\ sa.restarts = <<>>
             /\ agents = sa.status_read /\ current_task = sa.task_read

\* C14 witness: the run is over; a working agent was asked to terminate and
\* its task to restart, while an idle agent holding another task was not
\* asked to terminate nor its task to restart.
C14_Witness ==
    /\ sa.pc = "done"
    /\ \E a, b \in AgentIds :
          /\ sa.status_read[a] = "working" /\ sa.status_read[b] = "idle"
          /\ sa.task_read[a] # None /\ sa.task_read[b] # None
          /\ sa.task_read[a] # sa.task_read[b]
          /\ sa.task_read[a] \in RestartedTaskIds
          /\ sa.task_read[b] \notin RestartedTaskIds
          /\ \E i \in DOMAIN sa.terminations : sa.terminations[i].agent_id = a
          /\ \A i \in DOMAIN sa.terminations : sa.terminations[i].agent_id # b

\* C15: the delay is a barrier for the whole batch. A restart_task request
\* has been issued only if a termination request was issued, and returned or
\* failed, for every agent of the batch and the delay has elapsed.
C15_GraceDelayIsBarrier ==
    sa.pc # "idle" /\ sa.restarts # <<>> =>
       /\ sa.slept
       /\ Len(sa.terminations) = Len(sa.active_agents)
       /\ \A i \in DOMAIN sa.active_agents :
             sa.terminations[i].agent_id = sa.active_agents[i]

\* C15 witness: two agents were asked to terminate, the delay elapsed, and
\* the first restart request has been issued.
C15_Witness ==
    /\ sa.pc = "restart"
    /\ Len(sa.restarts) = 1
    /\ Len(sa.terminations) >= 2
    /\ sa.slept

\* C16: a termination request that fails does not stop the batch. Once Step
\* 1 is over every selected agent was asked to terminate, once and in order,
\* whichever requests failed, and when the run is over a restart was
\* requested for every collected task id.
C16_FailedTerminationDoesNotStop ==
    sa.pc \in {"sleep", "restart", "done"} /\ sa.active_agents # <<>> =>
       /\ Len(sa.terminations) = Len(sa.active_agents)
       /\ \A i \in DOMAIN sa.active_agents :
             sa.terminations[i].agent_id = sa.active_agents[i]
       /\ sa.pc = "done" =>
             /\ sa.slept
             /\ Len(sa.restarts) = Len(sa.task_ids_to_restart)
             /\ \A i \in DOMAIN sa.restarts :
                   sa.restarts[i].task_id = sa.task_ids_to_restart[i]

\* C16 witness: the first termination request failed, the second succeeded,
\* and the run went on to request the restart of the first agent's task.
C16_Witness ==
    /\ sa.pc = "done"
    /\ Len(sa.terminations) >= 2
    /\ ~sa.terminations[1].ok /\ sa.terminations[2].ok
    /\ sa.task_read[sa.terminations[1].agent_id] \in RestartedTaskIds

\* C17: the tasks whose restart is requested are the non-empty
\* current_task_id values of the selected agents as read before the first
\* termination request: the requests follow that list, and when the run is
\* over they cover exactly it, whatever a termination did to an agent's
\* current_task_id.
C17_RestartsWhatWasRead ==
    sa.pc \in {"terminate", "sleep", "restart", "done"} /\ sa.active_agents # <<>> =>
       /\ sa.task_ids_to_restart = TasksAtRead
       /\ Len(sa.restarts) <= Len(TasksAtRead)
       /\ \A i \in DOMAIN sa.restarts : sa.restarts[i].task_id = TasksAtRead[i]
       /\ sa.pc = "done" =>
             RestartedTaskIds = {sa.task_read[a] : a \in {x \in AgentIds : SelectedAtRead(x)}}
                                   \ {None}

\* C17 witness: a termination cleared the current_task_id of a selected
\* agent, and the restart of the task it held at selection was requested.
C17_Witness ==
    /\ sa.pc = "done"
    /\ \E a \in AgentIds :
          /\ SelectedAtRead(a)
          /\ sa.task_read[a] # None /\ current_task[a] = None
          /\ sa.task_read[a] \in RestartedTaskIds

\* =================== restart_failed_tasks among the writers of the task table
\* A second run of restart_failed_tasks, started while the first is under
\* way: the same steps, on a session of its own.
Restart2Select ==
    /\ rs2.pc = "idle"
    /\ LET run == RestartRun(1)
           failed_tasks == FailedTasks
       IN rs2' = IF failed_tasks = <<>>
                 THEN [run EXCEPT !.pc = "done"] @@
                      [failed_tasks |-> failed_tasks, task_ids |-> <<>>,
                       outcome |-> "no failed tasks"]
                 ELSE [run EXCEPT !.pc = "reset"] @@
                      [failed_tasks |-> failed_tasks, task_ids |-> failed_tasks,
                       outcome |-> "running"]
    /\ UNCHANGED <<storeVars, envVars, evalVars, cl, rs, sa>>

Restart2SetupFails ==
    /\ rs2.pc = "idle"
    /\ rs2' = [RestartRun(1) EXCEPT !.pc = "done"] @@
              [failed_tasks |-> <<>>, task_ids |-> <<>>, outcome |-> "setup failed"]
    /\ UNCHANGED <<storeVars, envVars, evalVars, cl, rs, sa>>

\* session.commit() of the second run: its session writes the columns it
\* changed on the rows it loaded when it selected them, whatever the store
\* holds for these rows by now.
Restart2Commit ==
    /\ rs2.pc = "reset"
    /\ tasks' = ResetTasks(tasks, rs2.before, rs2.failed_tasks)
    /\ rs2' = [rs2 EXCEPT !.pc = "enqueue"]
    /\ UNCHANGED <<workflows, workflow_results, phases, worktrees, agents, current_task,
                   envVars, evalVars, cl, rs, sa>>

Restart2CommitFails ==
    /\ rs2.pc = "reset"
    /\ tasks' = RolledBack(tasks, rs2.failed_tasks)
    /\ rs2' = [rs2 EXCEPT !.pc = "done", !.outcome = "commit failed"]
    /\ UNCHANGED <<workflows, workflow_results, phases, worktrees, agents, current_task,
                   envVars, evalVars, cl, rs, sa>>

Restart2Enqueue ==
    /\ rs2.pc = "enqueue"
    /\ \E ok \in BOOLEAN :
          LET calls == Append(rs2.calls, [task_id |-> rs2.task_ids[Len(rs2.calls) + 1], ok |-> ok])
          IN rs2' = IF Len(calls) = Len(rs2.task_ids)
                    THEN [rs2 EXCEPT !.calls = calls, !.pc = "done", !.outcome = "completed"]
                    ELSE [rs2 EXCEPT !.calls = calls]
    /\ UNCHANGED <<storeVars, envVars, evalVars, cl, rs, sa>>

\* The queue admitted the task: a run submitted it and enqueue_task returned.
Admitted(t) ==
    \/ \E i \in DOMAIN Get(rs, "calls", <<>>) : rs.calls[i].task_id = t /\ rs.calls[i].ok
    \/ \E i \in DOMAIN Get(rs2, "calls", <<>>) : rs2.calls[i].task_id = t /\ rs2.calls[i].ok

\* The queue processor gives an admitted queued task to an agent.
QueueProcessorAssigns(t) ==
    /\ tasks[t].status = "queued"
    /\ Admitted(t)
    /\ tasks' = [tasks EXCEPT ![t].status = "assigned", ![t].assigned_agent_id = 1,
                              ![t].started_at = 1]
    /\ UNCHANGED <<workflows, workflow_results, phases, worktrees, agents, current_task,
                   envVars, evalVars, cl, rs, rs2, sa>>

\* The agent completes its task.
AgentCompletes(t) ==
    /\ tasks[t].status = "assigned"
    /\ tasks' = [tasks EXCEPT ![t].status = "done", ![t].completed_at = 1]
    /\ UNCHANGED <<workflows, workflow_results, phases, worktrees, agents, current_task,
                   envVars, evalVars, cl, rs, rs2, sa>>

\* Tasks that failed, are done or are still pending; no run has started.
InitOverlap ==
    /\ tasks \in [TaskIds -> {PlainTask(1, s) : s \in {"failed", "done", "pending"}}]
    /\ workflows = [w \in WfIds |-> "active"]
    /\ workflow_results = {}
    /\ phases = [p \in PhaseIds |-> 1]
    /\ worktrees = [w \in WtIds |-> "cleaned"]
    /\ agents = [a \in WtIds |-> NoRow]
    /\ current_task = [a \in WtIds |-> None]
    /\ NoEnv
    /\ method = "db"
    /\ request = None
    /\ results = <<>>
    /\ response = NoResponse
    /\ cl = NoRun
    /\ rs = NoRun
    /\ rs2 = NoRun
    /\ sa = NoRun

NextOverlap ==
    \/ RestartSelect
    \/ RestartSetupFails
    \/ RestartCommit
    \/ RestartCommitFails
    \/ RestartEnqueue
    \/ Restart2Select
    \/ Restart2SetupFails
    \/ Restart2Commit
    \/ Restart2CommitFails
    \/ Restart2Enqueue
    \/ \E t \in TaskIds : QueueProcessorAssigns(t)
    \/ \E t \in TaskIds : AgentCompletes(t)

SpecOverlap == InitOverlap /\ [][NextOverlap]_vars

\* ================================================== done is never undone
\* C18: whatever the interleaving of restart_failed_tasks, run once or twice
\* at the same time, with the queue processor and the agents, a task the
\* store records as done is not moved to another status by any step.
C18_DoneStaysDone ==
    [][\A t \in TaskIds : tasks[t].status = "done" => tasks'[t].status = "done"]_vars

\* ===================================== check_workflow_status.py --method both
\* The status a task had before its last transition.
PreviousStatus(status) ==
    CASE status = "done" -> "in_progress" [] status = "in_progress" -> "assigned"
      [] status = "assigned" -> "queued" [] status = "queued" -> "pending"
      [] status = "failed" -> "in_progress" [] OTHER -> "pending"

\* The task table as a service that lags on one task sees it; None: no lag.
LaggedTasks(t) ==
    IF t = None THEN tasks ELSE [tasks EXCEPT ![t].status = PreviousStatus(@)]

\* The body GET /api/workflow answers with when the service reads the given
\* task table: inactive without an active or paused workflow, else the four
\* counts of each phase of that workflow.
ServedInfo(table) ==
    LET active == {w \in WfIds : workflows[w] \in {"active", "paused"}}
        Count(phase_id, statuses) ==
            Cardinality({t \in TaskIds :
                            table[t].phase_id = phase_id /\ table[t].status \in statuses})
    IN IF active = {}
       THEN [status |-> "inactive", phases |-> <<>>]
       ELSE LET phs == PhasesOf(Min(active))
            IN [status |-> "active",
                phases |-> [i \in 1..Len(phs) |->
                    [total_tasks |-> Count(phs[i], TaskStatuses),
                     completed_tasks |-> Count(phs[i], {"done"}),
                     active_tasks |-> Count(phs[i], {"assigned", "in_progress"}),
                     pending_tasks |-> Count(phs[i], {"pending"})]]]

\* One invocation with --method both, on any store whose phases belong to
\* workflow 1.
InitBoth ==
    /\ method = "both"
    /\ workflows \in [WfIds -> WorkflowStatuses]
    /\ workflow_results \in {{}, {[workflow_id |-> 1, status |-> "validated"]}}
    /\ phases = [p \in PhaseIds |-> 1]
    /\ tasks \in TaskTables
    /\ worktrees = [w \in WtIds |-> "cleaned"]
    /\ agents = [a \in WtIds |-> NoRow]
    /\ current_task = [a \in WtIds |-> None]
    /\ NoEnv
    /\ request = None
    /\ results = <<>>
    /\ response = NoResponse
    /\ cl = NoRun
    /\ rs = NoRun
    /\ rs2 = NoRun
    /\ sa = NoRun

\* main() with --method both: results["api"] is filled from the service's
\* answer (from the store as it is or lagging on one task, or a failure),
\* then results["db"] from the store; the two entries are all the report has.
MainBoth(workflow_id) ==
    /\ method = "both"
    /\ results = <<>>
    /\ \E workflow \in SelectWorkflow(workflow_id) :
       \E r \in {Answered(ServedInfo(LaggedTasks(t))) : t \in TaskIds \cup {None}}
                   \cup {CallFailed, NoLibrary} :
          /\ response' = r
          /\ results' = [api |-> CheckApi(r), db |-> CheckDb(workflow)]
    /\ request' = workflow_id
    /\ UNCHANGED <<storeVars, envVars, method, cl, rs, rs2, sa>>

NextBoth == \E workflow_id \in {None, EmptyId, UnknownWfId} \cup WfIds : MainBoth(workflow_id)

SpecBoth == InitBoth /\ [][NextBoth]_vars

\* ================================================== two sources, one report
\* C19: with both sources checked, the report holds the verdict of each
\* source, and when the API verdict and the store verdict disagree the report
\* records the disagreement in an entry of its own, next to the two verdicts.
C19_DisagreementRecorded ==
    (/\ DbRan /\ ApiRan
     /\ results.api.complete # results.db.complete)
       => \E key \in DOMAIN results : key \notin {"api", "db"}

\* ==================================================== atomic marking
\* C21: the marking of cleanup_stale_worktrees is atomic across the batch.
\* While the records are only marked in the session, and after a commit that
\* failed, every record of the store has the merge_status it had when the run
\* started: no stale record is cleaned by that run, and no branch is deleted.
C21_FailedCommitCleansNothing ==
    (cl.pc = "marked" \/ (cl.pc = "done" /\ cl.outcome = "commit failed")) =>
       /\ worktrees = cl.before
       /\ \A w \in StaleIds(cl.stale_worktrees) : worktrees[w] = "active"
       /\ branches = cl.branches_before

\* C21 witness: two stale records were marked, the commit failed, the run is
\* over and both are still active.
C21_Witness ==
    /\ cl.pc = "done" /\ cl.outcome = "commit failed"
    /\ ~cl.dry_run
    /\ Len(cl.stale_worktrees) >= 2
    /\ \A w \in StaleIds(cl.stale_worktrees) : worktrees[w] = "active"

\* ============================== configuration and dependency failures
\* The operator runs cleanup_stale_worktrees and restart_failed_tasks, each
\* once or several times: every record active with its branch, on disk or
\* not; every task failed or done.
InitSetup ==
    /\ worktrees = [w \in WtIds |-> "active"]
    /\ agents = [a \in WtIds |-> "terminated"]
    /\ current_task = [a \in WtIds |-> None]
    /\ disk \in SUBSET WtIds
    /\ git_worktrees = WtIds
    /\ branches = {BranchName(w) : w \in WtIds}
    /\ tasks \in [TaskIds -> {TaskRow(1, "failed", 1, 1, 1, None), PlainTask(1, "done")}]
    /\ workflows = [w \in WfIds |-> "active"]
    /\ workflow_results = {}
    /\ phases = [p \in PhaseIds |-> 1]
    /\ method = "db"
    /\ request = None
    /\ results = <<>>
    /\ response = NoResponse
    /\ cl = NoRun
    /\ rs = NoRun
    /\ rs2 = NoRun
    /\ sa = NoRun

NextSetup ==
    \/ NextCleanup
    \/ NextRestart

SpecSetup == InitSetup /\ [][NextSetup]_vars

\* C22: when get_config(), opening the main repository or building the queue
\* service fails, the run of cleanup_stale_worktrees ends with every worktree
\* record and every branch as it found them, and the run of
\* restart_failed_tasks ends with every task as it found it and without a
\* call of enqueue_task.
C22_SetupFailureChangesNothing ==
    /\ (cl.pc = "done" /\ cl.outcome = "setup failed") =>
          /\ worktrees = cl.before
          /\ branches = cl.branches_before
          /\ cl.deleted = {}
    /\ (rs.pc = "done" /\ rs.outcome = "setup failed") =>
          /\ tasks = rs.before
          /\ rs.calls = <<>>

\* C22 witness: an execute run of the clean-up failed in its set-up with a
\* stale record in the store, and the restart failed in its set-up with a
\* failed task in the store; the record is still active with its branch and
\* the task still failed.
C22_Witness ==
    /\ cl.pc = "done" /\ cl.outcome = "setup failed" /\ ~cl.dry_run
    /\ rs.pc = "done" /\ rs.outcome = "setup failed"
    /\ \E w \in WtIds :
          worktrees[w] = "active" /\ w \notin disk /\ BranchName(w) \in branches
    /\ \E t \in TaskIds : tasks[t].status = "failed"

\* ==================================================== reason priority
\* C23: the reason of the store evaluator follows the order of the signals.
\* With the status completed the reason is the status one, even with a
\* validated result and all phases complete; else with a validated result
\* the reason is the result one, even with all phases complete; the rollup
\* reason is given only when neither earlier signal holds, and the rollup does.
C23_ReasonFollowsPriority ==
    DbRan /\ results.db.workflow_id # None =>
       LET w == results.db.workflow_id
           reason == results.db.reason
       IN /\ StatusSignal(w) => reason = "Workflow marked as completed"
          /\ ~StatusSignal(w) /\ ResultSignal(w) => reason = "Workflow has validated result"
          /\ reason = "All phases complete (all tasks done)" =>
                ~StatusSignal(w) /\ ~ResultSignal(w)
          /\ reason = "Workflow has validated result" => ~StatusSignal(w)

\* C23 witness: the workflow is completed, has a validated result and all
\* its phases are complete, and the reason given is the status.
C23_Witness ==
    /\ DbRan /\ results.db.workflow_id # None
    /\ StatusSignal(results.db.workflow_id)
    /\ ResultSignal(results.db.workflow_id)
    /\ RollupSignal(results.db.workflow_id)
    /\ results.db.reason = "Workflow marked as completed"

\* ==================================================== two adapters
\* The per-phase counts of a workflow as the store has them.
CountsOf(w) ==
    LET phs == PhasesOf(w)
    IN [i \in 1..Len(phs) |->
           [total_tasks |-> CountTasks(phs[i], TaskStatuses),
            completed_tasks |-> CountTasks(phs[i], {"done"}),
            active_tasks |-> CountTasks(phs[i], {"assigned", "in_progress"}),
            pending_tasks |-> CountTasks(phs[i], {"pending"})]]

\* The body the API evaluator was fed describes the workflow the store
\* evaluator read: the same status and the same counts for the same phases.
SameWorkflowState ==
    /\ DbRan /\ ApiRan
    /\ results.db.workflow_id # None
    /\ Has(results.api, "workflow_info")
    /\ results.api.workflow_info.status = workflows[results.db.workflow_id]
    /\ results.api.workflow_info.phases = CountsOf(results.db.workflow_id)

\* C24: fed the same workflow state, the API evaluator and the store
\* evaluator give the same complete verdict and, when the workflow is not
\* complete, the same progress snapshot.
C24_SameStateSameVerdict ==
    SameWorkflowState =>
       /\ results.api.complete = results.db.complete
       /\ ~results.db.complete => results.api.progress = results.db.progress

\* ==================================================== failed status call
\* C25: when the call to the service fails or times out, or cannot be made,
\* the API evaluator answers complete=false with an error field; it answers
\* complete=true only on a body the service returned.
C25_FailedCallIsNotComplete ==
    ApiRan =>
       /\ response.kind # "body" =>
             /\ results.api.complete = FALSE
             /\ Has(results.api, "error")
       /\ results.api.complete => response.kind = "body"

\* C25 witness: the call failed and the verdict is complete=false with the
\* error and the reason of the except branch.
C25_Witness ==
    /\ ApiRan
    /\ response.kind = "error"
    /\ ~results.api.complete
    /\ Has(results.api, "error")
    /\ results.api.reason = "Failed to check workflow status"

\* ==================================================== restart outcomes
\* C26: in the restart step a rejection with HTTP 400 ends in an outcome of
\* its own, different from the outcome of any transient failure (another
\* error status, no response) and from the outcome of an accepted restart,
\* which are different from each other too; and whatever the outcomes, the
\* run requests the restart of every collected task.
C26_RejectionIsDistinct ==
    sa.pc # "idle" =>
       /\ \A i, j \in DOMAIN sa.restarts :
             LET ri == sa.restarts[i].response
                 rj == sa.restarts[j].response
                 Rejected(r) == r.status = 400
                 Transient(r) == r.status = None \/ r.status = 500
                 Accepted(r) == r.status = 200 /\ r.body = "success"
             IN /\ sa.restarts[i].outcome \in RestartOutcomes
                /\ Rejected(ri) => sa.restarts[i].outcome = "not ready"
                /\ Rejected(ri) /\ (Transient(rj) \/ Accepted(rj)) =>
                      sa.restarts[i].outcome # sa.restarts[j].outcome
                /\ Transient(ri) /\ Accepted(rj) =>
                      sa.restarts[i].outcome # sa.restarts[j].outcome
       /\ sa.pc = "done" /\ sa.active_agents # <<>> =>
             /\ Len(sa.restarts) = Len(sa.task_ids_to_restart)
             /\ \A i \in DOMAIN sa.restarts :
                   sa.restarts[i].task_id = sa.task_ids_to_restart[i]

\* C26 witness: the first restart was rejected with 400, the second got an
\* error status of another kind, and the run is over with two outcomes.
C26_Witness ==
    /\ sa.pc = "done"
    /\ Len(sa.restarts) >= 2
    /\ sa.restarts[1].response.status = 400 /\ sa.restarts[1].outcome = "not ready"
    /\ sa.restarts[2].response.status = 500 /\ sa.restarts[2].outcome = "http error"

\* C27: a restart is requested only for a task held by an agent whose
\* termination request succeeded; after a failed termination request no
\* restart is requested for that agent's task in the run.
C27_RestartOnlyAfterTermination ==
    sa.pc # "idle" =>
       \A t \in RestartedTaskIds :
          \E i \in DOMAIN sa.terminations :
             sa.terminations[i].ok /\ sa.task_read[sa.terminations[i].agent_id] = t

\* ============================================ references between rows
\* The cross-entity invariant: a task's assigned_agent_id, if set, names an
\* agent whose current_task_id is that task, and an agent's current_task_id,
\* if set, names a task whose assigned_agent_id is that agent.
CrossEntity ==
    /\ \A t \in TaskIds :
          tasks[t].assigned_agent_id # None =>
             /\ agents[tasks[t].assigned_agent_id] # NoRow
             /\ current_task[tasks[t].assigned_agent_id] = t
    /\ \A a \in AgentIds :
          /\ agents[a] = NoRow => current_task[a] = None
          /\ current_task[a] # None => tasks[current_task[a]].assigned_agent_id = a

\* A store in which the cross-entity invariant holds: a failed task may still
\* be attached to the agent that ran it.
InitAssigned ==
    /\ tasks \in [TaskIds -> {TaskRow(1, "failed", 1, a, 1, 1) : a \in AgentIds \cup {None}}
                                 \cup {PlainTask(1, "pending")}]
    /\ agents \in [AgentIds -> {NoRow, "terminated", "stuck"}]
    /\ current_task \in [AgentIds -> TaskIds \cup {None}]
    /\ CrossEntity
    /\ workflows = [w \in WfIds |-> "active"]
    /\ workflow_results = {}
    /\ phases = [p \in PhaseIds |-> 1]
    /\ worktrees = [w \in WtIds |-> "cleaned"]
    /\ NoEnv
    /\ method = "db"
    /\ request = None
    /\ results = <<>>
    /\ response = NoResponse
    /\ cl = NoRun
    /\ rs = NoRun
    /\ rs2 = NoRun
    /\ sa = NoRun

SpecAssigned == InitAssigned /\ [][NextRestart]_vars

\* C28: after a run of restart_failed_tasks has committed, no agent's
\* current_task_id names a task the run reset whose assigned_agent_id named
\* the agent before the run and does not name it any more.
C28_NoOrphanedReference ==
    rs.pc = "enqueue" \/ (rs.pc = "done" /\ rs.outcome = "completed") =>
       \A a \in AgentIds :
          \A i \in DOMAIN rs.failed_tasks :
             (/\ current_task[a] = rs.failed_tasks[i]
              /\ rs.before[rs.failed_tasks[i]].assigned_agent_id = a)
                => tasks[rs.failed_tasks[i]].assigned_agent_id = a

\* ============================================== admission after a reset
\* C29: when a run of restart_failed_tasks follows a run in which the
\* admission of a reset task failed, the later run submits that task to the
\* queue again.
C29_LaterRunRetriesAdmission ==
    [][(/\ rs.pc = "done"
        /\ rs.outcome = "completed"
        /\ rs'.runs > rs.runs
        /\ rs'.outcome # "setup failed")
          => \A i \in DOMAIN rs.calls :
                (~rs.calls[i].ok /\ tasks[rs.calls[i].task_id].status = "queued")
                   => \E j \in DOMAIN rs'.task_ids : rs'.task_ids[j] = rs.calls[i].task_id]_vars

\* ======================================== evaluation after the restart
\* A workflow whose tasks are failed or done, spread over its phases.
InitRecover ==
    /\ tasks \in [TaskIds -> {TaskRow(p, "failed", 1, None, 1, 1) : p \in PhaseIds}
                                 \cup {PlainTask(p, "done") : p \in PhaseIds}]
    /\ workflows \in [WfIds -> {"active", "paused"}]
    /\ workflow_results = {}
    /\ phases = [p \in PhaseIds |-> 1]
    /\ worktrees = [w \in WtIds |-> "cleaned"]
    /\ agents = [a \in WtIds |-> NoRow]
    /\ current_task = [a \in WtIds |-> None]
    /\ NoEnv
    /\ method = "db"
    /\ request = None
    /\ results = <<>>
    /\ response = NoResponse
    /\ cl = NoRun
    /\ rs = NoRun
    /\ rs2 = NoRun
    /\ sa = NoRun

\* restart_failed_tasks, and check_workflow_status --method db run at any
\* point of it.
NextRecover ==
    \/ NextRestart
    \/ \E workflow_id \in {None} \cup WfIds : MainDb(workflow_id)

SpecRecover == InitRecover /\ [][NextRecover]_vars

\* C30: an evaluation made after restart_failed_tasks has committed that
\* reports "All phases complete" leaves no task of the workflow queued,
\* pending, assigned or in_progress.
C30_CompleteMeansNothingWaiting ==
    [][(/\ rs.pc = "enqueue" \/ (rs.pc = "done" /\ rs.outcome = "completed")
        /\ rs' = rs
        /\ "db" \in DOMAIN results'
        /\ results'.db.reason = "All phases complete (all tasks done)")
          => \A t \in TaskIds :
                phases[tasks[t].phase_id] = results'.db.workflow_id
                   => tasks[t].status \notin {"queued", "pending", "assigned", "in_progress"}]_vars

\* ================================================ the worktree listing
\* C31: in_git_list is true only for a record whose worktree path is itself
\* a worktree of the listing, so an active record whose path is not a listed
\* worktree is in the stale list, with in_git_list false.
C31_ListedMeansSamePath ==
    Scanned =>
       \A w \in WtIds :
          (cl.before[w] = "active" /\ w \notin git_worktrees) =>
             \E i \in DOMAIN cl.stale_worktrees :
                /\ cl.stale_worktrees[i].worktree = w
                /\ ~cl.stale_worktrees[i].in_git_list

====
